---- MODULE Spec2Model ----
(***************************************************************************)
(* Signal Decoder (src/src/App.tsx): the round engine of the App           *)
(* component.  The state is the component's useState cells plus the set of *)
(* timers the round-start effect has registered with the runtime.  One     *)
(* action per event handler and per timer callback.  A state change that   *)
(* changes a dependency of the round-start effect runs the effect (cleanup *)
(* of the previous run, then the body) in the same step.                   *)
(***************************************************************************)
EXTENDS Integers, FiniteSets, Sequences, TLC

\* ---------------------------------------------------------------- constants
GRID_SIZE == 5
FLASH_DURATION_MS == 10000
NumLevels == 5

\* ------------------------------------------------------------------- bounds
\* number of grid cells the player clicks on (taken from ClickOrder)
NumClick == 5
\* submit is not taken once it would push the score above MaxScore
MaxScore == 5
\* resetLevel is not taken once the round counter has reached MaxRound
MaxRound == 1

\* the centre cluster first (the whole target set of level 4), then others
ClickOrder == <<12, 7, 11, 13, 17, 0, 1, 24, 3>>
ClickCells == {ClickOrder[k] : k \in 1..NumClick}

NULL == [null |-> TRUE]

Max(a, b) == IF a >= b THEN a ELSE b
Min(a, b) == IF a <= b THEN a ELSE b
Abs(a) == IF a < 0 THEN 0 - a ELSE a
\* Math.ceil(n / d) for positive integers
Ceil(n, d) == (n + d - 1) \div d

\* ---------------------------------------------------------------- grid model
RECURSIVE buildCellsFrom(_, _)
\* faulty variant: the column is taken modulo one less than the side length
buildCellsFrom_shortRow(i, acc) ==
  IF i < GRID_SIZE * GRID_SIZE
  THEN buildCellsFrom(i + 1,
         Append(acc, [index |-> i, row |-> i \div GRID_SIZE,
                      col |-> i % (GRID_SIZE - 1)]))
  ELSE acc

\* for (let i = 0; i < GRID_SIZE * GRID_SIZE; i++) cells.push(...)
buildCellsFrom(i, acc) ==
  IF i < GRID_SIZE * GRID_SIZE
  THEN buildCellsFrom(i + 1,
         Append(acc, [index |-> i, row |-> i \div GRID_SIZE, col |-> i % GRID_SIZE]))
  ELSE acc

buildCells == buildCellsFrom(0, <<>>)

cells == buildCells

\* --------------------------------------------------------------- rule catalog
RECURSIVE isPrimeFrom(_, _)
\* faulty variant: trial division stops one short of the square root
isPrimeFrom_strict(n, i) ==
  IF i * i < n
  THEN IF n % i = 0 THEN FALSE ELSE isPrimeFrom(n, i + 1)
  ELSE TRUE

\* for (let i = 2; i * i <= n; i++) if (n % i === 0) return false
isPrimeFrom(n, i) ==
  IF i * i <= n
  THEN IF n % i = 0 THEN FALSE ELSE isPrimeFrom(n, i + 1)
  ELSE TRUE

isPrime(n) == IF n < 2 THEN FALSE ELSE isPrimeFrom(n, 2)

centerCluster(c) ==
  LET center == (GRID_SIZE * GRID_SIZE) \div 2
      cr == center \div GRID_SIZE
      cc == center % GRID_SIZE
      dr == Abs(c.row - cr)
      dc == Abs(c.col - cc)
  IN (dr = 0 /\ dc = 0) \/ dr + dc = 1

\* LEVELS[lv].ruleFn(c), lv the 0-based position in LEVELS
ruleFn(lv, c) ==
  CASE lv = 0 -> c.index % 2 = 0
    [] lv = 1 -> c.row = c.col \/ c.row + c.col = GRID_SIZE - 1
    [] lv = 2 -> isPrime(c.index)
    [] lv = 3 -> centerCluster(c)
    [] lv = 4 -> (c.row + c.col) % 3 = 0

RECURSIVE targetSetFrom(_, _, _)
targetSetFrom(lv, k, s) ==
  IF k > Len(cells) THEN s
  ELSE targetSetFrom(lv, k + 1,
         IF ruleFn(lv, cells[k]) THEN s \cup {cells[k].index} ELSE s)

TargetSets == [lv \in 0..(NumLevels - 1) |-> targetSetFrom(lv, 1, {})]

\* ---------------------------------------------------------------------- state
\* the component's state cells and the runtime's timers; lastOp is the handler
\* or callback the event loop ran last
VARIABLES levelIndex, isFlashing, flashOn, selected, results, score,
          hintShown, timeLeft, round, timers, lastOp

state == <<levelIndex, isFlashing, flashOn, selected, results, score,
           hintShown, timeLeft, round, timers>>

vars == <<state, lastOp>>

\* the memoised target set of the active level
targetSet == TargetSets[levelIndex]

\* A timer registered with the runtime.  cur tells whether the handle is one
\* of those held by the closure of the latest run of the round-start effect
\* (toggle, countdown, stop), or was created by an earlier run.
Timer(kind, cur) == [kind |-> kind, cur |-> cur]

\* the header text: Memorize / Result / Select the cells
phase ==
  IF isFlashing THEN "Memorizing"
  ELSE IF results # NULL THEN "Resulted" ELSE "Selecting"

\* ---------------------------------------------------------- round-start effect
\* faulty variant: the cleanup clears nothing
effectCleanup_none(ts) == ts

\* cleanup function returned by the previous run of the effect
effectCleanup(ts) ==
  ts \ {Timer("toggle", TRUE), Timer("countdown", TRUE), Timer("stop", TRUE)}

\* timers that survived the cleanup now belong to an earlier round
Outdated(ts) == {Timer(t.kind, FALSE) : t \in ts}

\* faulty variant: the effect does not register the one-shot timeout
effectTimers_noStop(ts) ==
  Outdated(effectCleanup(ts))
    \cup {Timer("toggle", TRUE), Timer("countdown", TRUE)}

\* setInterval(toggle), setInterval(countdown), setTimeout(stop)
effectTimers(ts) ==
  Outdated(effectCleanup(ts))
    \cup {Timer("toggle", TRUE), Timer("countdown", TRUE), Timer("stop", TRUE)}

\* faulty variant: the round start also zeroes the score
roundStart_resetsScore ==
  /\ isFlashing' = TRUE
  /\ flashOn' = TRUE
  /\ selected' = {}
  /\ results' = NULL
  /\ hintShown' = FALSE
  /\ timeLeft' = Ceil(FLASH_DURATION_MS, 1000)
  /\ timers' = effectTimers(timers)
  /\ score' = 0

\* faulty variant: the round start does not clear the result
roundStart_keepsResults ==
  /\ isFlashing' = TRUE
  /\ flashOn' = TRUE
  /\ selected' = {}
  /\ results' = results
  /\ hintShown' = FALSE
  /\ timeLeft' = Ceil(FLASH_DURATION_MS, 1000)
  /\ timers' = effectTimers(timers)
  /\ score' = score

\* faulty variant: the round start does not empty the selection
roundStart_keepsSelection ==
  /\ isFlashing' = TRUE
  /\ flashOn' = TRUE
  /\ selected' = selected
  /\ results' = NULL
  /\ hintShown' = FALSE
  /\ timeLeft' = Ceil(FLASH_DURATION_MS, 1000)
  /\ timers' = effectTimers(timers)
  /\ score' = score

\* body of the effect; score, levelIndex and round are not written by it
roundStart ==
  /\ isFlashing' = TRUE
  /\ flashOn' = TRUE
  /\ selected' = {}
  /\ results' = NULL
  /\ hintShown' = FALSE
  /\ timeLeft' = Ceil(FLASH_DURATION_MS, 1000)
  /\ timers' = effectTimers(timers)
  /\ score' = score

\* faulty variant: round is missing from the dependencies of the effect
commit_levelOnly(newLevel, newRound) ==
  /\ levelIndex' = newLevel
  /\ round' = newRound
  /\ IF newLevel # levelIndex
     THEN roundStart
     ELSE UNCHANGED <<isFlashing, flashOn, selected, results, score,
                      hintShown, timeLeft, timers>>

\* faulty variant: the effect has no dependency list and runs on every update
commit_always(newLevel, newRound) ==
  /\ levelIndex' = newLevel
  /\ round' = newRound
  /\ roundStart

\* a state update of levelIndex / round, followed by the effect when one of
\* its dependencies [levelIndex, round, cells] changed
commit(newLevel, newRound) ==
  /\ levelIndex' = newLevel
  /\ round' = newRound
  /\ IF newLevel # levelIndex \/ newRound # round
     THEN roundStart
     ELSE UNCHANGED <<isFlashing, flashOn, selected, results, score,
                      hintShown, timeLeft, timers>>

Init ==
  /\ levelIndex = 0
  /\ isFlashing = TRUE
  /\ flashOn = TRUE
  /\ selected = {}
  /\ results = NULL
  /\ score = 0
  /\ hintShown = FALSE
  /\ timeLeft = Ceil(FLASH_DURATION_MS, 1000)
  /\ round = 0
  /\ timers = {Timer("toggle", TRUE), Timer("countdown", TRUE), Timer("stop", TRUE)}
  /\ lastOp = [op |-> "mount", at |-> "Memorizing"]

\* -------------------------------------------------------------- timer callbacks
toggle ==
  /\ \E t \in timers : t.kind = "toggle"
  /\ flashOn' = ~flashOn
  /\ UNCHANGED <<levelIndex, isFlashing, selected, results, score,
                 hintShown, timeLeft, round, timers>>

\* faulty variant: the countdown is not floored at zero
countdown_noFloor ==
  /\ \E t \in timers : t.kind = "countdown"
  /\ timeLeft' = timeLeft - 1
  /\ UNCHANGED <<levelIndex, isFlashing, flashOn, selected, results, score,
                 hintShown, round, timers>>

countdown ==
  /\ \E t \in timers : t.kind = "countdown"
  /\ timeLeft' = (IF timeLeft > 0 THEN timeLeft - 1 ELSE 0)
  /\ UNCHANGED <<levelIndex, isFlashing, flashOn, selected, results, score,
                 hintShown, round, timers>>

\* faulty variant: the one-shot timeout leaves the two intervals running
stopTimers_keepIntervals(ts, t) == ts \ {t}

\* the one-shot timeout: it clears the two intervals of its own effect run
stopTimers(ts, t) ==
  ts \ {t, Timer("toggle", t.cur), Timer("countdown", t.cur)}

stop ==
  \E t \in timers :
    /\ t.kind = "stop"
    /\ isFlashing' = FALSE
    /\ flashOn' = FALSE
    /\ timers' = stopTimers(timers, t)
    /\ UNCHANGED <<levelIndex, selected, results, score, hintShown,
                   timeLeft, round>>

\* ------------------------------------------------------------ toggleSelect
\* faulty variant: the updater only ever adds
ToggleSet_addOnly(prev, idx) == prev \cup {idx}

\* the updater passed to setSelected
ToggleSet(prev, idx) ==
  IF idx \in prev THEN prev \ {idx} ELSE prev \cup {idx}

\* faulty variant: the early return on results is missing
toggleSelect_noResultsGuard(idx) ==
  IF isFlashing
  THEN UNCHANGED state
  ELSE /\ selected' = ToggleSet(selected, idx)
       /\ UNCHANGED <<levelIndex, isFlashing, flashOn, results, score,
                      hintShown, timeLeft, round, timers>>

toggleSelect(idx) ==
  IF isFlashing \/ results # NULL
  THEN UNCHANGED state
  ELSE /\ selected' = ToggleSet(selected, idx)
       /\ UNCHANGED <<levelIndex, isFlashing, flashOn, results, score,
                      hintShown, timeLeft, round, timers>>

\* ------------------------------------------------------------------ submit
\* smallest element first; the resulting sets do not depend on the order
First(s) == CHOOSE x \in s : \A y \in s : x <= y

\* for (const idx of selected) ... correct.add(idx) / incorrect.add(idx)
RECURSIVE partitionSelected(_, _, _, _)
partitionSelected(rest, tgt, correct, incorrect) ==
  IF rest = {} THEN [correct |-> correct, incorrect |-> incorrect]
  ELSE LET idx == First(rest)
       IN IF idx \in tgt
          THEN partitionSelected(rest \ {idx}, tgt, correct \cup {idx}, incorrect)
          ELSE partitionSelected(rest \ {idx}, tgt, correct, incorrect \cup {idx})

\* for (const t of targetSet) if (!selected.has(t)) missed.add(t)
RECURSIVE missedTargets(_, _, _)
missedTargets(rest, sel, missed) ==
  IF rest = {} THEN missed
  ELSE LET t == First(rest)
       IN missedTargets(rest \ {t}, sel,
                        IF t \notin sel THEN missed \cup {t} ELSE missed)

\* faulty variant: the missed targets are left out of incorrect
submitResults_noMissed(p, missed) ==
  [correct |-> p.correct, incorrect |-> p.incorrect]

\* faulty variant: every target is put into incorrect, not only the missed ones
submitResults_allTargets(p, missed) ==
  [correct |-> p.correct, incorrect |-> p.incorrect \cup missed \cup p.correct]

\* { correct, incorrect: new Set([...incorrect, ...missed]) }
submitResults(p, missed) ==
  [correct |-> p.correct, incorrect |-> p.incorrect \cup missed]

\* faulty variant: delta is added without the floor at zero
scoreAfter_noFloor(s, p) ==
  s + (Cardinality(p.correct) - Cardinality(p.incorrect))

\* faulty variant: wrongly selected cells do not offset the correct ones
scoreAfter_correctOnly(s, p) ==
  s + Cardinality(p.correct)

\* delta = correct.size - incorrect.size; s + Math.max(0, delta)
scoreAfter(s, p) ==
  s + Max(0, Cardinality(p.correct) - Cardinality(p.incorrect))

submit ==
  IF isFlashing
  THEN UNCHANGED state
  ELSE LET p == partitionSelected(selected, targetSet, {}, {})
           missed == missedTargets(targetSet, selected, {})
       IN /\ scoreAfter(score, p) <= MaxScore
          /\ score' = scoreAfter(score, p)
          /\ results' = submitResults(p, missed)
          /\ UNCHANGED <<levelIndex, isFlashing, flashOn, selected,
                         hintShown, timeLeft, round, timers>>

\* faulty variant: the button stays enabled once a result is shown
SubmitDisabled_flashingOnly == isFlashing

\* disabled={isFlashing || !!results} on the Submit button
SubmitDisabled == isFlashing \/ results # NULL

\* a click on the Submit button; a disabled button dispatches no click
clickSubmit ==
  IF SubmitDisabled THEN UNCHANGED state ELSE submit

\* ------------------------------------------------------------ level navigation
nextLevel == commit(Min(NumLevels - 1, levelIndex + 1), round)

prevLevel == commit(Max(0, levelIndex - 1), round)

\* Next button, disabled on the last level
clickNext ==
  IF levelIndex = NumLevels - 1 THEN UNCHANGED state ELSE nextLevel

\* Prev button, disabled on the first level
clickPrev ==
  IF levelIndex = 0 THEN UNCHANGED state ELSE prevLevel

\* faulty variant: the level button passes the 1-based id of the level
selectLevel_byId(i) == commit(i + 1, round)

\* a level button: setLevelIndex(i)
selectLevel(i) == commit(i, round)

\* Restart button: setRound(r => r + 1)
resetLevel ==
  /\ round < MaxRound
  /\ commit(levelIndex, round + 1)

\* hint button: setHintShown(s => !s)
toggleHint ==
  /\ hintShown' = ~hintShown
  /\ UNCHANGED <<levelIndex, isFlashing, flashOn, selected, results, score,
                 timeLeft, round, timers>>

\* ------------------------------------------------------------- cell rendering
\* faulty variant: a target stays lit during the dark half of the flash
isLit_ignoresFlashOn(c) == isFlashing /\ c.index \in targetSet

\* isLit = isFlashing && isTarget && flashOn
isLit(c) == isFlashing /\ c.index \in targetSet /\ flashOn

\* results?.correct.has(c.index) ?? false
resCorrect(c) == IF results = NULL THEN FALSE ELSE c.index \in results.correct

\* results?.incorrect.has(c.index) ?? false
resIncorrect(c) == IF results = NULL THEN FALSE ELSE c.index \in results.incorrect

\* the class names pushed for a cell
classNames(c) ==
  {"cell"}
    \cup (IF isLit(c) THEN {"lit"} ELSE {})
    \cup (IF c.index \in selected THEN {"selected"} ELSE {})
    \cup (IF results # NULL
          THEN IF resCorrect(c) THEN {"correct"}
               ELSE IF resIncorrect(c) THEN {"incorrect"} ELSE {}
          ELSE {})

\* ----------------------------------------------------------------------- spec
\* the event loop records which handler ran and in which phase it was invoked
Did(op) == lastOp' = [op |-> op, at |-> phase]

Next ==
  \/ (\E idx \in ClickCells : toggleSelect(idx)) /\ Did("toggleSelect")
  \/ clickSubmit /\ Did("submit")
  \/ clickNext /\ Did("nextLevel")
  \/ clickPrev /\ Did("prevLevel")
  \/ (\E i \in 0..(NumLevels - 1) : selectLevel(i)) /\ Did("selectLevel")
  \/ resetLevel /\ Did("resetLevel")
  \/ toggleHint /\ Did("toggleHint")
  \/ toggle /\ Did("toggle")
  \/ countdown /\ Did("countdown")
  \/ stop /\ Did("stop")

Spec == Init /\ [][Next]_vars

\* the one-shot timeout of a round of level lv
stopOf(lv) == stop /\ Did("stop") /\ levelIndex = lv

\* The runtime fires every timeout that is registered and not cleared.  Each
\* round start registers a new timeout; the rounds of different levels are
\* told apart here, and the rounds of one level are separated by resets, of
\* which a behaviour has finitely many.
FairSpec ==
  Spec /\ \A lv \in 0..(NumLevels - 1) : WF_vars(stopOf(lv))

TypeOK ==
  /\ levelIndex \in 0..(NumLevels - 1)
  /\ isFlashing \in BOOLEAN
  /\ flashOn \in BOOLEAN
  /\ selected \subseteq ClickCells
  /\ score \in 0..MaxScore
  /\ hintShown \in BOOLEAN
  /\ timeLeft \in 0..Ceil(FLASH_DURATION_MS, 1000)
  /\ round \in 0..MaxRound

\* --------------------------------------------------------------- properties
SubmitStep == lastOp'.op = "submit"
AcceptedSubmit == SubmitStep /\ lastOp'.at = "Selecting"
ToggleSelectStep == lastOp'.op = "toggleSelect"

\* C1: a submit invoked while Memorizing or once a result exists changes
\* neither score, result, selection nor phase; a result that is set stays as
\* it is (and the score with it) until a round start clears it, and the score
\* changes only in the step that sets the result.
C1_SubmitOnlyInSelecting ==
  [][ /\ (SubmitStep /\ lastOp'.at # "Selecting")
           => UNCHANGED <<score, results, selected, isFlashing>>
      /\ (results # NULL /\ results' # NULL)
           => (results' = results /\ score' = score)
      /\ (score' # score) => (results = NULL /\ results' # NULL) ]_vars

C1_Witness ==
  /\ lastOp = [op |-> "submit", at |-> "Resulted"]
  /\ results # NULL
  /\ score > 0

\* C2: an accepted submit sets result.correct to the selected targets and
\* result.incorrect to the selected non-targets together with the missed
\* targets, and the round is Resulted afterwards; with nothing selected,
\* correct is empty and incorrect is the whole target set.
C2_SubmitResult ==
  [][ AcceptedSubmit =>
        /\ results' # NULL
        /\ results'.correct = selected \cap targetSet
        /\ results'.incorrect = (selected \ targetSet) \cup (targetSet \ selected)
        /\ (selected = {} => results'.correct = {} /\ results'.incorrect = targetSet)
        /\ ~isFlashing' ]_vars

C2_Witness ==
  /\ lastOp = [op |-> "submit", at |-> "Selecting"]
  /\ results # NULL
  /\ results.correct # {}
  /\ selected \ targetSet # {}
  /\ targetSet \ selected # {}

\* C3: an accepted submit adds max(0, |S \cap T| - |S \ T|) to the score; the
\* missed targets do not count; S = T adds |T|; a non-empty S disjoint from T
\* adds nothing.
C3_SubmitDelta ==
  [][ AcceptedSubmit =>
        LET hit == Cardinality(selected \cap targetSet)
            wrong == Cardinality(selected \ targetSet)
        IN /\ score' = score + (IF hit - wrong > 0 THEN hit - wrong ELSE 0)
           /\ (selected = targetSet => score' = score + Cardinality(targetSet))
           /\ (selected # {} /\ selected \cap targetSet = {} => score' = score) ]_vars

C3_Witness ==
  /\ lastOp = [op |-> "submit", at |-> "Selecting"]
  /\ results # NULL
  /\ selected = targetSet
  /\ score = Cardinality(targetSet)

\* C4: the score is a non-negative integer and no step decreases it.
C4_ScoreMonotone ==
  [](score \in Nat) /\ [][score' >= score]_vars

C4_Witness ==
  /\ lastOp = [op |-> "submit", at |-> "Selecting"]
  /\ score > 0
  /\ Cardinality(selected \ targetSet) > Cardinality(selected \cap targetSet)

\* C5: every step that is not a submit (level navigation, reset, toggleSelect,
\* hint toggle, the round start they trigger, the timer callbacks) leaves the
\* score as it is.
C5_OnlySubmitScores ==
  [][ lastOp'.op # "submit" => score' = score ]_vars

C5_Witness ==
  /\ score > 0
  /\ lastOp.op = "resetLevel"
  /\ levelIndex # 0
  /\ isFlashing

\* C6: toggleSelect invoked while Memorizing or once a result exists changes
\* nothing; while a result is set the selection stays as submitted.
C6_ToggleSelectGuarded ==
  [][ /\ (ToggleSelectStep /\ lastOp'.at # "Selecting") => UNCHANGED state
      /\ (results # NULL /\ results' # NULL) => selected' = selected ]_vars

C6_Witness ==
  /\ lastOp = [op |-> "toggleSelect", at |-> "Resulted"]
  /\ results # NULL
  /\ selected # {}

\* C7: in Selecting, toggleSelect(i) flips the membership of i and of no other
\* index, and a second toggleSelect(i) gives back the prior selection, for
\* every index of the grid.
C7_ToggleFlips ==
  [][ (ToggleSelectStep /\ lastOp'.at = "Selecting") =>
        /\ \E i \in ClickCells :
              /\ (i \in selected') # (i \in selected)
              /\ selected' \ {i} = selected \ {i}
              /\ ToggleSet(selected', i) = selected
        /\ \A i \in 0..(GRID_SIZE * GRID_SIZE - 1) :
              LET once == ToggleSet(selected, i)
              IN /\ (i \in once) # (i \in selected)
                 /\ once \ {i} = selected \ {i}
                 /\ ToggleSet(once, i) = selected ]_vars

C7_Witness ==
  /\ lastOp = [op |-> "toggleSelect", at |-> "Selecting"]
  /\ Cardinality(selected) = 2
  /\ results = NULL

\* C8: a reset in any phase, and every change of the level index, gives a
\* fresh round: Memorizing, flash visible, nothing selected, no result, ten
\* seconds left.
C8_FreshRound ==
  [][ (lastOp'.op = "resetLevel" \/ levelIndex' # levelIndex) =>
        /\ isFlashing'
        /\ flashOn'
        /\ selected' = {}
        /\ results' = NULL
        /\ timeLeft' = 10 ]_vars

C8_Witness ==
  /\ lastOp = [op |-> "resetLevel", at |-> "Resulted"]
  /\ isFlashing
  /\ selected = {}
  /\ results = NULL
  /\ timeLeft = 10

\* C9: outside Memorizing the flash is off, and from a state outside
\* Memorizing no flash-toggle or countdown callback runs and the remaining
\* seconds stay as they are, until a round start.
C9_TimersStopped ==
  [][ /\ ~isFlashing' => ~flashOn'
      /\ ~isFlashing =>
           /\ lastOp'.op \notin {"toggle", "countdown", "stop"}
           /\ (~isFlashing' => timeLeft' = timeLeft) ]_vars

C9_Witness ==
  /\ lastOp = [op |-> "toggleSelect", at |-> "Selecting"]
  /\ ~isFlashing
  /\ ~flashOn
  /\ timeLeft \in 1..9
  /\ selected # {}

\* C10: at most one flash-toggle, one countdown and one one-shot timer is
\* active, and every active timer was created by the latest round start.
C10_TimersOfCurrentRound ==
  /\ \A k \in {"toggle", "countdown", "stop"} :
        Cardinality({t \in timers : t.kind = k}) <= 1
  /\ \A t \in timers : t.cur
  /\ isFlashing => Cardinality(timers) = 3
  /\ ~isFlashing => timers = {}

C10_Witness ==
  /\ lastOp = [op |-> "selectLevel", at |-> "Memorizing"]
  /\ round > 0
  /\ timeLeft = 10
  /\ Cardinality(timers) = 3

\* a reset or a change of the level index: the running round is interrupted
Interrupted == levelIndex' # levelIndex \/ round' # round

\* C11: a round that is Memorizing and is not interrupted by a reset or a
\* level change eventually leaves Memorizing (a behaviour stays Memorizing
\* for ever only if interrupted again and again), and the step that leaves
\* Memorizing arrives in Selecting with the flash off.
C11_ReachesSelecting ==
  /\ ([]<>(~isFlashing)) \/ ([]<><<Interrupted>>_vars)
  /\ [][(isFlashing /\ ~isFlashing') => (~flashOn' /\ phase' = "Selecting")]_vars

C11_Witness ==
  /\ lastOp = [op |-> "stop", at |-> "Memorizing"]
  /\ phase = "Selecting"
  /\ ~flashOn
  /\ round > 0
  /\ levelIndex # 0

\* C12: the round leaves Memorizing only by the one-shot timeout, and then
\* for Selecting; no handler of a user operation moves it out of Memorizing;
\* Resulted is entered only from Selecting, by a submit.
C12_PhaseTransitions ==
  [][ /\ (phase = "Memorizing" /\ phase' # "Memorizing")
           => (lastOp'.op = "stop" /\ phase' = "Selecting")
      /\ (lastOp'.op \in {"toggleSelect", "submit", "toggleHint", "nextLevel",
                          "prevLevel", "selectLevel", "resetLevel"}
            /\ phase = "Memorizing") => phase' = "Memorizing"
      /\ (phase # "Resulted" /\ phase' = "Resulted")
           => (phase = "Selecting" /\ lastOp'.op = "submit") ]_vars

C12_Witness ==
  /\ lastOp = [op |-> "submit", at |-> "Memorizing"]
  /\ phase = "Memorizing"
  /\ score > 0
  /\ timeLeft < 10

\* C13: the remaining seconds are 10 at every round start, a countdown tick
\* takes exactly one off while they are above zero and leaves zero at zero,
\* they are always within 0..10, and no step other than a round start
\* increases them.
C13_Countdown ==
  /\ [](timeLeft \in 0..10)
  /\ [][ /\ Interrupted => timeLeft' = 10
         /\ ~Interrupted => timeLeft' <= timeLeft
         /\ lastOp'.op = "countdown"
              => timeLeft' = (IF timeLeft > 0 THEN timeLeft - 1 ELSE 0)
         /\ (lastOp'.op # "countdown" /\ ~Interrupted) => timeLeft' = timeLeft ]_vars

C13_Witness ==
  /\ lastOp = [op |-> "countdown", at |-> "Memorizing"]
  /\ timeLeft = 0
  /\ isFlashing
  /\ round > 0

\* C14: the level index is always within 0..4; Next on the last level and
\* Prev on the first level leave it as it is, otherwise they change it by
\* exactly +1 and -1; a level button sets it to a position of the catalog.
C14_LevelIndexClamped ==
  /\ [](levelIndex \in 0..4)
  /\ [][ /\ lastOp'.op = "nextLevel"
              => levelIndex' = (IF levelIndex = 4 THEN 4 ELSE levelIndex + 1)
         /\ lastOp'.op = "prevLevel"
              => levelIndex' = (IF levelIndex = 0 THEN 0 ELSE levelIndex - 1)
         /\ lastOp'.op \notin {"nextLevel", "prevLevel", "selectLevel"}
              => levelIndex' = levelIndex ]_vars

C14_Witness ==
  /\ lastOp.op = "nextLevel"
  /\ lastOp.at = "Selecting"
  /\ levelIndex = 4
  /\ phase = "Selecting"

\* C15: a cell is lit only while Memorizing with the flash on and only if it
\* is a target; a cell is coloured correct or incorrect only when a result is
\* set; in Selecting no cell is lit or coloured.
C15_TargetsNotRevealed ==
  \A k \in 1..Len(cells) :
    LET c == cells[k]
        cls == classNames(c)
    IN /\ "lit" \in cls => (phase = "Memorizing" /\ flashOn /\ c.index \in targetSet)
       /\ (cls \cap {"correct", "incorrect"}) # {} => results # NULL
       /\ phase = "Selecting" => (cls \cap {"lit", "correct", "incorrect"}) = {}

C15_Witness ==
  /\ phase = "Resulted"
  /\ lastOp = [op |-> "submit", at |-> "Selecting"]
  /\ \E k \in 1..Len(cells) :
        /\ "incorrect" \in classNames(cells[k])
        /\ cells[k].index \notin selected

\* the hand-enumerated target sets of the five levels on the 5x5 grid
ReferenceTargets ==
  <<{0, 2, 4, 6, 8, 10, 12, 14, 16, 18, 20, 22, 24},
    {0, 4, 6, 8, 12, 16, 18, 20, 24},
    {2, 3, 5, 7, 11, 13, 17, 19, 23},
    {7, 11, 12, 13, 17},
    {0, 3, 7, 11, 14, 15, 18, 22}>>

\* C16: the target set of every level is its reference set, and the target
\* set of the active level is a non-empty set of cell indices 0..24.
C16_TargetSets ==
  /\ \A lv \in 0..4 : TargetSets[lv] = ReferenceTargets[lv + 1]
  /\ targetSet = ReferenceTargets[levelIndex + 1]
  /\ targetSet # {}
  /\ targetSet \subseteq 0..24

C16_Witness ==
  /\ levelIndex = 2
  /\ lastOp = [op |-> "submit", at |-> "Selecting"]
  /\ results # NULL
  /\ results.correct = {7, 11, 13, 17}
  /\ results.incorrect = {2, 3, 5, 19, 23}

\* C17: the grid has N * N cells in row-major order, the k-th cell has index
\* k - 1, every index 0..N*N-1 occurs once, index = row * N + col with row
\* and col within 0..N-1, and distinct cells have distinct (row, col).
C17_GridCells ==
  LET N == GRID_SIZE IN
  /\ Len(cells) = N * N
  /\ \A k \in 1..Len(cells) :
        /\ cells[k].index = k - 1
        /\ cells[k].row \in 0..(N - 1)
        /\ cells[k].col \in 0..(N - 1)
        /\ cells[k].index = cells[k].row * N + cells[k].col
  /\ {cells[k].index : k \in 1..Len(cells)} = 0..(N * N - 1)
  /\ \A j, k \in 1..Len(cells) :
        (cells[j].row = cells[k].row /\ cells[j].col = cells[k].col) => j = k
  /\ \A i \in selected : cells[i + 1].index = i

C17_Witness ==
  /\ phase = "Selecting"
  /\ \E i \in selected : cells[i + 1].row = 2 /\ cells[i + 1].col = 2
  /\ \E i \in selected : cells[i + 1].row = 3 /\ cells[i + 1].col = 2

\* C18: a level button for the active level, Next on the last level and Prev
\* on the first level change nothing: phase, flash, remaining seconds,
\* selection, result and timers stay as they are.  The round goes back to
\* Memorizing only in a step that changes the level index or the round
\* counter, and only navigation and reset make such a step.
C18_NoRestartWithoutChange ==
  [][ /\ (lastOp'.op \in {"selectLevel", "nextLevel", "prevLevel"}
            /\ levelIndex' = levelIndex) => UNCHANGED state
      /\ (~isFlashing /\ isFlashing') => Interrupted
      /\ (levelIndex' # levelIndex)
           => lastOp'.op \in {"selectLevel", "nextLevel", "prevLevel"}
      /\ (round' # round) => (lastOp'.op = "resetLevel" /\ round' = round + 1) ]_vars

C18_Witness ==
  /\ lastOp = [op |-> "selectLevel", at |-> "Resulted"]
  /\ phase = "Resulted"
  /\ selected # {}
  /\ timeLeft \in 1..9

\* C19: while Memorizing nothing is selected and no result is set; outside
\* Memorizing the flash is off.
C19_MemorizingIsClean ==
  /\ isFlashing => (selected = {} /\ results = NULL)
  /\ ~isFlashing => ~flashOn

C19_Witness ==
  /\ lastOp = [op |-> "nextLevel", at |-> "Resulted"]
  /\ isFlashing
  /\ score > 0
  /\ selected = {}
  /\ results = NULL

\* C20: a result that is set has disjoint correct and incorrect sets, its
\* correct set lies within the selection and within the target set of the
\* active level, and correct and incorrect together are the selection
\* together with the target set.
C20_ResultConsistent ==
  results # NULL =>
    /\ results.correct \cap results.incorrect = {}
    /\ results.correct \subseteq selected
    /\ results.correct \subseteq targetSet
    /\ results.correct \cup results.incorrect = selected \cup targetSet

C20_Witness ==
  /\ lastOp = [op |-> "toggleSelect", at |-> "Resulted"]
  /\ results # NULL
  /\ levelIndex = 4
  /\ results.correct # {}
  /\ results.incorrect \cap selected # {}

====
